---- MODULE Spec2Model ----
(***************************************************************************)
(* PDF2PNG: path discovery (logic.find_pdfs), conversion                   *)
(* (logic.convert_pdf) and the command-line batch loop (cli._main).        *)
(*                                                                         *)
(* A file name is a record [base, pgs, ext]: the text                      *)
(*   base ( " - Pg k" for each k of pgs ) ( "." ext  when ext # "" ).      *)
(* A path is the sequence of names from the filesystem root.               *)
(* The filesystem fs is a function from the existing paths to their entry. *)
(***************************************************************************)
EXTENDS Integers, Sequences, FiniteSets, TLC

MaxPages == 2
MaxInputs == 2

VARIABLES
    fs,          \* the filesystem: existing path -> [kind, data]
    inputs,      \* args.inputs: the raw strings of the command line
    overwrite,   \* args.overwrite
    password,    \* args.password
    pc,          \* position of the program
    fi,          \* find_pdfs: index of the input being scanned
    seen,        \* find_pdfs: seen
    out,         \* find_pdfs: out
    encountered, \* history: every path find_pdfs met, in scan order
    pdfs,        \* _main: pdfs
    idx,         \* _main: index of the pdf of the for loop
    handle,      \* convert_pdf: doc ("none", "open", "closed")
    page_count,  \* convert_pdf: page_count
    i,           \* convert_pdf: i of the page loop
    exc,         \* convert_pdf: an exception is propagating
    closeCalls,  \* history: calls of doc.close() in the current convert_pdf
    closeRaised, \* history: the last doc.close() raised
    wrote,       \* history: target paths the current convert_pdf saved
    fs0,         \* history: the filesystem when the current convert_pdf began
    log0,        \* history: the length of log when the current convert_pdf began
    log,         \* the lines given to say(), in order
    exitCode,    \* the value _main returned / the process exit code; -1 before
    dpi,         \* the dpi argument given to convert_pdf
    alpha,       \* the alpha argument given to convert_pdf
    calls,       \* history: the arguments of every convert_pdf call, in order
    frontend,    \* "cli" (cli._main) or "gui" (gui.App)
    targets,     \* gui: App.targets
    listbox,     \* gui: the lines of App.listbox
    dpi_var,     \* gui: App.dpi_var
    alpha_var,   \* gui: App.alpha_var
    overwrite_var, \* gui: App.overwrite_var
    password_var,  \* gui: App.password_var
    dialog,      \* gui: the title of the last message box shown ("" if none)
    lastOp       \* gui history: the last list operation, its selection and
                 \* the targets before it

vars == <<fs, inputs, overwrite, password, pc, fi, seen, out, encountered, pdfs,
          idx, handle, page_count, i, exc, closeCalls, closeRaised, wrote, fs0,
          log0, log, exitCode, dpi, alpha, calls, frontend, targets, listbox,
          dpi_var, alpha_var, overwrite_var, password_var, dialog, lastOp>>

guiVars == <<frontend, targets, listbox, dpi_var, alpha_var, overwrite_var,
             password_var, dialog, lastOp>>

findVars == <<fi, seen, out, encountered>>
convVars == <<handle, page_count, i, exc, closeCalls, closeRaised, wrote, fs0,
              log0>>

-----------------------------------------------------------------------------
(* Names and paths *)

Name(base, pgs, ext) == [base |-> base, pgs |-> pgs, ext |-> ext]

DotDot == Name("..", <<>>, "")
Dot == Name(".", <<>>, "")

Root == <<>>
D == Name("d", <<>>, "")
Cwd == <<D>>
Home == <<D>>

\* PurePath.suffix: the text from the last dot on ("" when there is none)
Suffix(p) == IF p = Root THEN "" ELSE p[Len(p)].ext

\* PurePath.stem: the final component without its suffix
Stem(p) == [base |-> p[Len(p)].base, pgs |-> p[Len(p)].pgs]

\* PurePath.parent
Parent(p) == IF p = Root THEN Root ELSE SubSeq(p, 1, Len(p) - 1)

\* PurePath.name
BaseName(p) == p[Len(p)]

\* str.lower() on the suffixes of the model
Lower(ext) ==
    CASE ext \in {"pdf", "pdF", "pDf", "pDF", "Pdf", "PdF", "PDf", "PDF"} -> "pdf"
      [] ext \in {"txt", "TXT"} -> "txt"
      [] ext \in {"png", "PNG"} -> "png"
      [] OTHER -> ext

\* the pattern "*.[Pp][Dd][Ff]" on one name
GlobMatch(n) ==
    \E c1 \in {"p", "P"}, c2 \in {"d", "D"}, c3 \in {"f", "F"} :
        n.ext = CASE c1 = "p" /\ c2 = "d" /\ c3 = "f" -> "pdf"
                  [] c1 = "p" /\ c2 = "d" /\ c3 = "F" -> "pdF"
                  [] c1 = "p" /\ c2 = "D" /\ c3 = "f" -> "pDf"
                  [] c1 = "p" /\ c2 = "D" /\ c3 = "F" -> "pDF"
                  [] c1 = "P" /\ c2 = "d" /\ c3 = "f" -> "Pdf"
                  [] c1 = "P" /\ c2 = "d" /\ c3 = "F" -> "PdF"
                  [] c1 = "P" /\ c2 = "D" /\ c3 = "f" -> "PDf"
                  [] OTHER -> "PDF"

\* a raw command-line string: where it starts and its components
RawPath(anchor, comps) == [anchor |-> anchor, comps |-> comps]

\* Path.expanduser(): a leading "~" becomes the home directory
ExpandUser(raw) ==
    IF raw.anchor = "home" THEN [anchor |-> "abs", comps |-> Home \o raw.comps]
    ELSE raw

RECURSIVE Normalize(_, _)
Normalize(acc, comps) ==
    IF comps = <<>> THEN acc
    ELSE LET c == Head(comps)
         IN  Normalize(IF c = Dot THEN acc
                       ELSE IF c = DotDot THEN Parent(acc)
                       ELSE Append(acc, c),
                       Tail(comps))

\* Path.resolve(): absolute (against the working directory), "." and ".."
\* folded away
Resolve(raw) ==
    Normalize(IF raw.anchor = "abs" THEN Root ELSE Cwd, raw.comps)

\* Path(raw).expanduser().resolve()
ResolveInput(raw) == Resolve(ExpandUser(raw))

IsPrefix(p, q) == Len(p) < Len(q) /\ SubSeq(q, 1, Len(p)) = p

-----------------------------------------------------------------------------
(* The filesystem *)

NoData == [t |-> "none", openable |-> FALSE, needs_pass |-> FALSE, pages |-> 0,
           src |-> <<>>, page |-> 0]
\* the content of a source file, as pymupdf sees it
PdfData(openable, needs_pass, pages) ==
    [t |-> "pdf", openable |-> openable, needs_pass |-> needs_pass,
     pages |-> pages, src |-> <<>>, page |-> 0]
\* a file that is no document (0 bytes, text, an earlier run's PNG)
OldData == [NoData EXCEPT !.t = "old"]
\* the PNG rendered from page k of src
PngData(src, k) == [NoData EXCEPT !.t = "png", !.src = src, !.page = k]

FileEntry(data) == [kind |-> "file", data |-> data]
DirEntry == [kind |-> "dir", data |-> NoData]

Exists(f, p) == p \in DOMAIN f
IsFile(f, p) == p \in DOMAIN f /\ f[p].kind = "file"
IsDir(f, p) == p \in DOMAIN f /\ f[p].kind = "dir"

\* p.rglob("*.[Pp][Dd][Ff]"): every entry beneath p whose name matches
RGlob(f, p) == {q \in DOMAIN f : IsPrefix(p, q) /\ GlobMatch(BaseName(q))}

\* the orders in which a directory walk can yield the set S
Orders(S) == {s \in [1..Cardinality(S) -> S] : \A x \in S : \E k \in DOMAIN s : s[k] = x}

Range(s) == {s[k] : k \in DOMAIN s}

-----------------------------------------------------------------------------
(* logic.find_pdfs *)

\* "if p not in seen: seen.add(p); out.append(p)" on the pair [seen, out]
AddPath_NoSeenCheck(st, p) ==
    [seen |-> st.seen \cup {p}, out |-> Append(st.out, p)]

AddPath(st, p) ==
    IF p \notin st.seen
    THEN [seen |-> st.seen \cup {p}, out |-> Append(st.out, p)]
    ELSE st

\* the body of "for path in p.rglob(...)" over the paths in the order yielded
RECURSIVE AddAll(_, _)
AddAll(st, order) ==
    IF order = <<>> THEN st
    ELSE AddAll(AddPath(st, Normalize(Root, Head(order))), Tail(order))

\* an input that names an existing regular file with a .pdf suffix
FindFile ==
    /\ pc = "find"
    /\ fi <= Len(inputs)
    /\ LET p == ResolveInput(inputs[fi])
           st == AddPath([seen |-> seen, out |-> out], p)
       IN  /\ IsFile(fs, p) /\ Lower(Suffix(p)) = "pdf"
           /\ seen' = st.seen
           /\ out' = st.out
           /\ encountered' = Append(encountered, p)
    /\ fi' = fi + 1
    /\ UNCHANGED <<guiVars, dpi, alpha, calls, 
                   fs, inputs, overwrite, password, pc, pdfs, idx, convVars,
                   log, exitCode>>

\* an input that names a directory: every match beneath it, in walk order
FindDir ==
    /\ pc = "find"
    /\ fi <= Len(inputs)
    /\ LET p == ResolveInput(inputs[fi])
       IN  /\ ~(IsFile(fs, p) /\ Lower(Suffix(p)) = "pdf")
           /\ IsDir(fs, p)
           /\ \E order \in Orders(RGlob(fs, p)) :
                LET st == AddAll([seen |-> seen, out |-> out], order)
                IN  /\ seen' = st.seen
                    /\ out' = st.out
                    /\ encountered' = encountered \o order
    /\ fi' = fi + 1
    /\ UNCHANGED <<guiVars, dpi, alpha, calls, 
                   fs, inputs, overwrite, password, pc, pdfs, idx, convVars,
                   log, exitCode>>

\* anything else is silently ignored
FindIgnore ==
    /\ pc = "find"
    /\ fi <= Len(inputs)
    /\ LET p == ResolveInput(inputs[fi])
       IN  /\ ~(IsFile(fs, p) /\ Lower(Suffix(p)) = "pdf")
           /\ ~IsDir(fs, p)
    /\ fi' = fi + 1
    /\ UNCHANGED <<guiVars, dpi, alpha, calls, 
                   fs, inputs, overwrite, password, pc, seen, out, encountered,
                   pdfs, idx, convVars, log, exitCode>>

\* "return out", received by _main as pdfs
FindReturn ==
    /\ pc = "find"
    /\ fi > Len(inputs)
    /\ pdfs' = out
    /\ pc' = "main"
    /\ UNCHANGED <<guiVars, dpi, alpha, calls, 
                   fs, inputs, overwrite, password, findVars, idx, convVars,
                   log, exitCode>>

-----------------------------------------------------------------------------
(* logic.convert_pdf, called from the for loop of cli._main *)

Line(level, what, path, page) ==
    [level |-> level, what |-> what, path |-> path, page |-> page]

\* the pdf of the current iteration of "for pdf in pdfs"
Cur == pdfs[idx]

\* the document pymupdf reads from the current pdf
CurDoc == fs[Cur].data

\* pymupdf.open(pdf_path) succeeds: the path is a regular file holding a
\* document pymupdf can read
CanOpen(f, p) == IsFile(f, p) /\ f[p].data.t = "pdf" /\ f[p].data.openable

DocPassword == "pw"

\* doc.authenticate(password)
Authenticate(pw) == pw.text = DocPassword

\* "not password": None and "" are both falsy
PasswordMissing(pw) == ~pw.given \/ pw.text = ""

Authenticated_IgnoresResult ==
    ~CurDoc.needs_pass \/ ~PasswordMissing(password)

\* the document is usable after the encryption check
Authenticated ==
    ~CurDoc.needs_pass \/ (~PasswordMissing(password) /\ Authenticate(password))

\* parent / f"{stem}.png"
OutPng(p) == Append(Parent(p), Name(Stem(p).base, Stem(p).pgs, "png"))

OutDir_IsParent(p) == Parent(p)

\* parent / stem
OutDir(p) == Append(Parent(p), Name(Stem(p).base, Stem(p).pgs, ""))

PagePng_ZeroIndexed(p, k) ==
    Append(OutDir(p), Name(Stem(p).base, Append(Stem(p).pgs, k - 1), "png"))

\* out_dir / f"{stem} - Pg {k}.png"
PagePng(p, k) ==
    Append(OutDir(p), Name(Stem(p).base, Append(Stem(p).pgs, k), "png"))

\* pix.save(target) of page k of src, when it succeeds
Save(f, target, src, k) ==
    (target :> FileEntry(PngData(src, k))) @@ f

MustSkip_NeverSkips(f, target) == FALSE

\* "out_png.exists() and not overwrite"
MustSkip(f, target) == Exists(f, target) /\ ~overwrite

\* what the front end logs before it calls convert_pdf: the GUI logs
\* "Found N PDF(s)" once before its loop and an arrow line per file, the
\* command line logs nothing
Announce(l) ==
    IF frontend = "gui"
    THEN Append(IF idx = 1 THEN Append(l, Line("GUI", "found", Root, Len(pdfs)))
                           ELSE l,
                Line("GUI", "arrow", Cur, 0))
    ELSE l

\* the call convert_pdf(pdf, dpi=, overwrite=, alpha=, password=, log=) and
\* the values convert_pdf starts from
EnterConvert ==
    /\ calls' = Append(calls, [pdf |-> Cur, dpi |-> dpi, overwrite |-> overwrite,
                               alpha |-> alpha, password |-> password])
    /\ fs0' = fs
    /\ log0' = Len(Announce(log))
    /\ wrote' = {}
    /\ closeCalls' = 0
    /\ closeRaised' = FALSE
    /\ exc' = FALSE
    /\ i' = 0
    /\ page_count' = 0

OpenFail_Propagates ==
    /\ pc = "main"
    /\ idx <= Len(pdfs)
    /\ ~CanOpen(fs, Cur)
    /\ EnterConvert
    /\ handle' = "none"
    /\ pc' = "raised"
    /\ exitCode' = 1
    /\ log' = Announce(log)
    /\ UNCHANGED <<guiVars, dpi, alpha,
                   fs, inputs, overwrite, password, findVars, pdfs, idx>>

\* pymupdf.open raises: [ERROR] and return
OpenFail ==
    /\ pc = "main"
    /\ idx <= Len(pdfs)
    /\ ~CanOpen(fs, Cur)
    /\ EnterConvert
    /\ handle' = "none"
    /\ log' = Append(Announce(log), Line("ERROR", "open", Cur, 0))
    /\ idx' = idx + 1
    /\ UNCHANGED <<guiVars, dpi, alpha, 
                   fs, inputs, overwrite, password, pc, findVars, pdfs, exitCode>>

\* pymupdf.open returns the document
OpenOk ==
    /\ pc = "main"
    /\ idx <= Len(pdfs)
    /\ CanOpen(fs, Cur)
    /\ EnterConvert
    /\ handle' = "open"
    /\ pc' = "body"
    /\ log' = Announce(log)
    /\ UNCHANGED <<guiVars, dpi, alpha,
                   fs, inputs, overwrite, password, findVars, pdfs, idx,
                   exitCode>>

\* "return" inside the try block: control goes to the finally clause
AuthSkip_ReturnsDirectly ==
    /\ pc = "body"
    /\ CurDoc.needs_pass
    /\ PasswordMissing(password) \/ ~Authenticate(password)
    /\ log' = Append(log, Line("ERROR", "password", Cur, 0))
    /\ pc' = "main"
    /\ idx' = idx + 1
    /\ UNCHANGED <<guiVars, dpi, alpha, calls, 
                   fs, inputs, overwrite, password, findVars, pdfs, convVars,
                   exitCode>>

\* encrypted, and the password is missing or wrong: [ERROR] and return
AuthSkip ==
    /\ pc = "body"
    /\ CurDoc.needs_pass
    /\ PasswordMissing(password) \/ ~Authenticate(password)
    /\ log' = Append(log, Line("ERROR", "password", Cur, 0))
    /\ pc' = "finally"
    /\ UNCHANGED <<guiVars, dpi, alpha, calls, 
                   fs, inputs, overwrite, password, findVars, pdfs, idx,
                   convVars, exitCode>>

\* page_count == 0: [WARN] and return
ZeroPages ==
    /\ pc = "body"
    /\ Authenticated
    /\ CurDoc.pages = 0
    /\ log' = Append(log, Line("WARN", "zero", Cur, 0))
    /\ pc' = "finally"
    /\ UNCHANGED <<guiVars, dpi, alpha, calls, 
                   fs, inputs, overwrite, password, findVars, pdfs, idx,
                   convVars, exitCode>>

\* one page, the target exists and overwrite is off: [SKIP] and return
SingleSkip ==
    /\ pc = "body"
    /\ Authenticated
    /\ CurDoc.pages = 1
    /\ MustSkip(fs, OutPng(Cur))
    /\ log' = Append(log, Line("SKIP", "exists", OutPng(Cur), 1))
    /\ pc' = "finally"
    /\ UNCHANGED <<guiVars, dpi, alpha, calls, 
                   fs, inputs, overwrite, password, findVars, pdfs, idx,
                   convVars, exitCode>>

\* one page, load_page / get_pixmap / save raises: [WARN] and return
SingleFail ==
    /\ pc = "body"
    /\ Authenticated
    /\ CurDoc.pages = 1
    /\ ~MustSkip(fs, OutPng(Cur))
    /\ log' = Append(log, Line("WARN", "render", Cur, 1))
    /\ pc' = "finally"
    /\ UNCHANGED <<guiVars, dpi, alpha, calls, 
                   fs, inputs, overwrite, password, findVars, pdfs, idx,
                   convVars, exitCode>>

\* one page rendered and saved: [OK] and return
SingleOk ==
    /\ pc = "body"
    /\ Authenticated
    /\ CurDoc.pages = 1
    /\ ~MustSkip(fs, OutPng(Cur))
    /\ ~IsDir(fs, OutPng(Cur))
    /\ fs' = Save(fs, OutPng(Cur), Cur, 1)
    /\ wrote' = wrote \cup {OutPng(Cur)}
    /\ log' = Append(log, Line("OK", "single", Cur, 1))
    /\ pc' = "finally"
    /\ UNCHANGED <<guiVars, dpi, alpha, calls, 
                   inputs, overwrite, password, findVars, pdfs, idx, handle,
                   page_count, i, exc, closeCalls, closeRaised, fs0, log0, exitCode>>

\* several pages, out_dir.mkdir(parents=True, exist_ok=True) raises
\* FileExistsError because out_dir exists and is no directory; no except
\* clause of convert_pdf catches it
MkdirRaise ==
    /\ pc = "body"
    /\ Authenticated
    /\ CurDoc.pages > 1
    /\ IsFile(fs, OutDir(Cur))
    /\ exc' = TRUE
    /\ pc' = "finally"
    /\ UNCHANGED <<guiVars, dpi, alpha, calls, 
                   fs, inputs, overwrite, password, findVars, pdfs, idx, handle,
                   page_count, i, closeCalls, closeRaised, wrote, fs0, log0, log,
                   exitCode>>

\* several pages, the output directory is created or reused
MkdirOk ==
    /\ pc = "body"
    /\ Authenticated
    /\ CurDoc.pages > 1
    /\ ~IsFile(fs, OutDir(Cur))
    /\ fs' = IF IsDir(fs, OutDir(Cur)) THEN fs ELSE (OutDir(Cur) :> DirEntry) @@ fs
    /\ page_count' = CurDoc.pages
    /\ i' = 0
    /\ pc' = "pages"
    /\ UNCHANGED <<guiVars, dpi, alpha, calls, 
                   inputs, overwrite, password, findVars, pdfs, idx, handle,
                   exc, closeCalls, closeRaised, wrote, fs0, log0, log, exitCode>>

\* page i+1: the target exists and overwrite is off: [SKIP], continue
PageSkip ==
    /\ pc = "pages"
    /\ i < page_count
    /\ MustSkip(fs, PagePng(Cur, i + 1))
    /\ log' = Append(log, Line("SKIP", "exists", PagePng(Cur, i + 1), i + 1))
    /\ i' = i + 1
    /\ UNCHANGED <<guiVars, dpi, alpha, calls, 
                   fs, inputs, overwrite, password, pc, findVars, pdfs, idx,
                   handle, page_count, exc, closeCalls, closeRaised, wrote, fs0, log0,
                   exitCode>>

\* a render failure that ends the page loop
PageFail_Breaks ==
    /\ pc = "pages"
    /\ i < page_count
    /\ ~MustSkip(fs, PagePng(Cur, i + 1))
    /\ log' = Append(log, Line("WARN", "render", Cur, i + 1))
    /\ i' = page_count
    /\ UNCHANGED <<guiVars, dpi, alpha, calls, 
                   fs, inputs, overwrite, password, pc, findVars, pdfs, idx,
                   handle, page_count, exc, closeCalls, closeRaised, wrote, fs0, log0,
                   exitCode>>

\* page i+1: load_page / get_pixmap / save raises: [WARN], continue
PageFail ==
    /\ pc = "pages"
    /\ i < page_count
    /\ ~MustSkip(fs, PagePng(Cur, i + 1))
    /\ log' = Append(log, Line("WARN", "render", Cur, i + 1))
    /\ i' = i + 1
    /\ UNCHANGED <<guiVars, dpi, alpha, calls, 
                   fs, inputs, overwrite, password, pc, findVars, pdfs, idx,
                   handle, page_count, exc, closeCalls, closeRaised, wrote, fs0, log0,
                   exitCode>>

\* page i+1 rendered and saved
PageOk ==
    /\ pc = "pages"
    /\ i < page_count
    /\ ~MustSkip(fs, PagePng(Cur, i + 1))
    /\ ~IsDir(fs, PagePng(Cur, i + 1))
    /\ fs' = Save(fs, PagePng(Cur, i + 1), Cur, i + 1)
    /\ wrote' = wrote \cup {PagePng(Cur, i + 1)}
    /\ i' = i + 1
    /\ UNCHANGED <<guiVars, dpi, alpha, calls, 
                   inputs, overwrite, password, pc, findVars, pdfs, idx, handle,
                   page_count, exc, closeCalls, closeRaised, fs0, log0, log, exitCode>>

\* the page loop is over: [OK] for the document
PagesDone ==
    /\ pc = "pages"
    /\ i = page_count
    /\ log' = Append(log, Line("OK", "multi", Cur, page_count))
    /\ pc' = "finally"
    /\ UNCHANGED <<guiVars, dpi, alpha, calls, 
                   fs, inputs, overwrite, password, findVars, pdfs, idx,
                   convVars, exitCode>>

\* the finally clause: "try: doc.close() / except Exception: pass", then the
\* pending return or exception goes on; an exception leaves convert_pdf and
\* its caller: from cli._main the interpreter exits with status 1, from
\* App._start the click handler ends there and no process exits
Finally ==
    /\ pc = "finally"
    /\ closeCalls' = closeCalls + 1
    /\ \E raised \in BOOLEAN :
          /\ closeRaised' = raised
          /\ handle' = IF raised THEN "close_failed" ELSE "closed"
    /\ IF exc
       THEN /\ pc' = "raised"
            /\ exitCode' = IF frontend = "cli" THEN 1 ELSE exitCode
            /\ idx' = idx
       ELSE /\ pc' = "main"
            /\ idx' = idx + 1
            /\ exitCode' = exitCode
    /\ UNCHANGED <<guiVars, dpi, alpha, calls, 
                   fs, inputs, overwrite, password, findVars, pdfs, page_count,
                   i, exc, wrote, fs0, log0, log>>

-----------------------------------------------------------------------------
(* cli._main after discovery *)

\* "if not pdfs": print [INFO] and return 1
MainNoPdfs ==
    /\ frontend = "cli"
    /\ pc = "main"
    /\ pdfs = <<>>
    /\ log' = Append(log, Line("INFO", "none", <<>>, 0))
    /\ exitCode' = 1
    /\ pc' = "returned"
    /\ UNCHANGED <<guiVars, dpi, alpha, calls, 
                   fs, inputs, overwrite, password, findVars, pdfs, idx,
                   convVars>>

\* the for loop is over: return 0
MainReturn0 ==
    /\ frontend = "cli"
    /\ pc = "main"
    /\ pdfs # <<>>
    /\ idx > Len(pdfs)
    /\ exitCode' = 0
    /\ pc' = "returned"
    /\ UNCHANGED <<guiVars, dpi, alpha, calls, 
                   fs, inputs, overwrite, password, findVars, pdfs, idx,
                   convVars, log>>

-----------------------------------------------------------------------------
(* Initial states *)

A_PDF == Name("a", <<>>, "pdf")
B_PDF == Name("b", <<>>, "PDF")
C_TXT == Name("c", <<>>, "txt")
E_PDF == Name("e", <<>>, "pdf")
F_PDF == Name("f", <<>>, "Pdf")
Z_PDF == Name("z", <<>>, "pdf")

NoPassword == [given |-> FALSE, text |-> ""]
Password(text) == [given |-> TRUE, text |-> text]

\* non-empty sequences over S of length at most n
SeqsUpTo(S, n) == UNION {[1..k -> S] : k \in 1..n}

PlainPdf == FileEntry(PdfData(TRUE, FALSE, 1))

\* the trees find_pdfs is run on: /a.pdf, /d (the working directory) with
\* a.pdf, b.PDF, c.txt and e.pdf, which is absent, a file, or a directory
\* that may hold f.Pdf
FindTrees ==
    { (<<>> :> DirEntry) @@ (<<D>> :> DirEntry) @@ (<<D, C_TXT>> :> FileEntry(OldData))
      @@ [p \in top \cup sub |-> PlainPdf]
      @@ (CASE e = "file" -> (<<D, E_PDF>> :> PlainPdf)
            [] e = "dir"  -> (<<D, E_PDF>> :> DirEntry)
            [] e = "dirf" -> (<<D, E_PDF>> :> DirEntry) @@ (<<D, E_PDF, F_PDF>> :> PlainPdf)
            [] OTHER -> <<>>) :
      top \in SUBSET {<<A_PDF>>}, sub \in SUBSET {<<D, A_PDF>>, <<D, B_PDF>>},
      e \in {"none", "file", "dir", "dirf"} }

FindRaws ==
    { RawPath("rel", <<A_PDF>>), RawPath("home", <<A_PDF>>),
      RawPath("rel", <<DotDot, A_PDF>>), RawPath("abs", <<D>>),
      RawPath("rel", <<B_PDF>>),
      RawPath("rel", <<Dot, C_TXT>>), RawPath("abs", <<D, E_PDF>>) }

InitProgram ==
    /\ pc = "find"
    /\ fi = 1
    /\ seen = {}
    /\ out = <<>>
    /\ encountered = <<>>
    /\ pdfs = <<>>
    /\ idx = 1
    /\ handle = "none"
    /\ page_count = 0
    /\ i = 0
    /\ exc = FALSE
    /\ closeCalls = 0
    /\ closeRaised = FALSE
    /\ wrote = {}
    /\ fs0 = fs
    /\ log0 = 0
    /\ log = <<>>
    /\ exitCode = -1
    /\ calls = <<>>

\* no list operation yet
NoOp == [op |-> "none", sel |-> {}, before |-> <<>>]

\* the command line front end: --dpi and --alpha at their argparse defaults,
\* no App object (its fields stay at the values App.__init__ would give)
InitCli ==
    /\ frontend = "cli"
    /\ dpi = 600
    /\ alpha = FALSE
    /\ targets = <<>>
    /\ listbox = <<>>
    /\ dpi_var = "600"
    /\ alpha_var = TRUE
    /\ overwrite_var = FALSE
    /\ password_var = ""
    /\ dialog = ""
    /\ lastOp = NoOp

InitFind ==
    /\ fs \in FindTrees
    /\ inputs \in SeqsUpTo(FindRaws, MaxInputs)
    /\ overwrite = FALSE
    /\ password = NoPassword
    /\ InitProgram
    /\ InitCli

NextFind == FindFile \/ FindDir \/ FindIgnore \/ FindReturn

SpecFind == InitFind /\ [][NextFind]_vars

-----------------------------------------------------------------------------
(* Path discovery: claims *)

\* s with every later repetition of an element dropped
RECURSIVE FirstOccurrences(_)
FirstOccurrences(s) ==
    IF s = <<>> THEN <<>>
    ELSE LET r == FirstOccurrences(SubSeq(s, 1, Len(s) - 1))
             x == s[Len(s)]
         IN  IF x \in Range(r) THEN r ELSE Append(r, x)

NoDuplicates(s) == \A j, k \in DOMAIN s : j # k => s[j] # s[k]

\* C1: the list find_pdfs builds never holds a path twice, and it lists the
\* paths in the order in which the scan first met them (a path met again, by
\* a repeated input or beneath a folder, keeps its first position).
C1_DedupFirstEncounter ==
    /\ NoDuplicates(out)
    /\ out = FirstOccurrences(encountered)
    /\ pc = "main" => pdfs = out

\* C1 witness: a finished scan that met some path more than once and
\* returned several paths
C1_Witness ==
    /\ pc = "main"
    /\ Len(encountered) > Len(pdfs)
    /\ Len(pdfs) >= 2

\* the existing regular .pdf files (any case) that an input names or that lie
\* beneath a directory an input names
ExpectedPdfs ==
    {q \in DOMAIN fs :
        /\ IsFile(fs, q)
        /\ Lower(Suffix(q)) = "pdf"
        /\ \E k \in DOMAIN inputs :
              LET p == ResolveInput(inputs[k])
              IN  q = p \/ (IsDir(fs, p) /\ IsPrefix(p, q))}

\* C2: the paths find_pdfs returns are exactly the existing regular files
\* with a .pdf extension (case-insensitive) that an input names directly or
\* that lie beneath a directory an input names; no directory is returned.
C2_ExactlyRegularPdfFiles ==
    pc = "main" => Range(pdfs) = ExpectedPdfs

-----------------------------------------------------------------------------
(* The command-line program on a working directory with two sources *)

SA == <<D, A_PDF>>
SB == <<D, B_PDF>>

\* what a source file can hold: no document at all, or a document that is
\* encrypted or not, with 0..MaxPages pages
DocsA ==
    {OldData} \cup {PdfData(TRUE, FALSE, n) : n \in 0..MaxPages}
              \cup {PdfData(TRUE, TRUE, n) : n \in 1..MaxPages}
DocsB ==
    {OldData, PdfData(TRUE, FALSE, 1), PdfData(TRUE, FALSE, MaxPages)}

\* what an earlier run (or the user) left where a.pdf's outputs go: nothing,
\* a.png, a file named a, or a directory a holding some of the page PNGs
Leftovers ==
    { <<>>, (OutPng(SA) :> FileEntry(OldData)), (OutDir(SA) :> FileEntry(OldData)) }
    \cup { (OutDir(SA) :> DirEntry)
           @@ [p \in {PagePng(SA, k) : k \in pgs} |-> FileEntry(OldData)] :
           pgs \in SUBSET (1..MaxPages) }

\* the command lines: one source, both in either order, the directory, a
\* name that does not exist
MainInputs ==
    { <<RawPath("rel", <<A_PDF>>)>>,
      <<RawPath("rel", <<A_PDF>>), RawPath("home", <<B_PDF>>)>>,
      <<RawPath("rel", <<B_PDF>>), RawPath("rel", <<A_PDF>>)>>,
      <<RawPath("abs", <<D>>)>>,
      <<RawPath("rel", <<Z_PDF>>)>> }

Passwords == {NoPassword, Password(""), Password(DocPassword), Password("bad")}

Init ==
    /\ \E da \in DocsA, db \in DocsB, left \in Leftovers :
          fs = (<<>> :> DirEntry) @@ (<<D>> :> DirEntry)
               @@ (SA :> FileEntry(da)) @@ (SB :> FileEntry(db)) @@ left
    /\ inputs \in MainInputs
    /\ overwrite \in BOOLEAN
    /\ password \in Passwords
    /\ InitProgram
    /\ InitCli

Next ==
    \/ FindFile \/ FindDir \/ FindIgnore \/ FindReturn
    \/ MainNoPdfs \/ MainReturn0
    \/ OpenFail \/ OpenOk
    \/ AuthSkip \/ ZeroPages
    \/ SingleSkip \/ SingleFail \/ SingleOk
    \/ MkdirRaise \/ MkdirOk
    \/ PageSkip \/ PageFail \/ PageOk \/ PagesDone
    \/ Finally

Spec == Init /\ [][Next]_vars

-----------------------------------------------------------------------------
(* Conversion and batch: claims *)

\* a call of convert_pdf has ended and none has begun since
CallEnded ==
    \/ pc = "main" /\ idx > 1
    \/ pc = "raised"
    \/ pc = "returned" /\ pdfs # <<>>

\* the pdf of that call
Last == IF pc = "raised" THEN pdfs[idx] ELSE pdfs[idx - 1]

\* the document of that call, as it was when the call began
LastDoc == fs0[Last].data

\* the lines that call logged
CallLog == SubSeq(log, log0 + 1, Len(log))

\* that call opened its document and got past the encryption check
LastUsable ==
    /\ CanOpen(fs0, Last)
    /\ LastDoc.needs_pass => (password.given /\ password.text = DocPassword)

\* the names of the output contract, written out
TargetPng(p) ==
    SubSeq(p, 1, Len(p) - 1)
        \o <<[base |-> p[Len(p)].base, pgs |-> p[Len(p)].pgs, ext |-> "png"]>>
TargetDir(p) ==
    SubSeq(p, 1, Len(p) - 1)
        \o <<[base |-> p[Len(p)].base, pgs |-> p[Len(p)].pgs, ext |-> ""]>>
TargetPage(p, k) ==
    TargetDir(p)
        \o <<[base |-> p[Len(p)].base, pgs |-> p[Len(p)].pgs \o <<k>>, ext |-> "png"]>>

\* the <<target, page>> pairs of a document of n pages
Targets(p, n) ==
    IF n = 1 THEN {<<TargetPng(p), 1>>}
    ELSE {<<TargetPage(p, k), k>> : k \in 1..n}

Rendered(p, k) == FileEntry(PngData(p, k))
RenderWarned(lines, p, k) == Line("WARN", "render", p, k) \in Range(lines)
SameOn(S, f, g) == \A q \in S : q \in DOMAIN f /\ q \in DOMAIN g /\ f[q] = g[q]

\* C3: after convert_pdf on an openable, authenticated document whose
\* outputs did not exist and with no render or save failure, a one-page
\* document has added exactly the file <stem>.png beside the source and no
\* directory; an N-page document (N > 1) has added exactly the directory
\* <stem> and in it the N files "<stem> - Pg k.png", k = 1..N, and no
\* <stem>.png.
C3_OutputShape ==
    (/\ CallEnded
     /\ LastUsable
     /\ TargetPng(Last) \notin DOMAIN fs0
     /\ TargetDir(Last) \notin DOMAIN fs0
     /\ \A k \in 1..MaxPages + 1 : ~RenderWarned(CallLog, Last, k))
    => LET n == LastDoc.pages
           pagePaths == {TargetPage(Last, k) : k \in 1..n}
       IN  /\ n = 1
              => /\ DOMAIN fs = DOMAIN fs0 \cup {TargetPng(Last)}
                 /\ fs[TargetPng(Last)] = Rendered(Last, 1)
                 /\ SameOn(DOMAIN fs0, fs, fs0)
           /\ n > 1
              => /\ DOMAIN fs = DOMAIN fs0 \cup {TargetDir(Last)} \cup pagePaths
                 /\ fs[TargetDir(Last)] = DirEntry
                 /\ \A k \in 1..n : fs[TargetPage(Last, k)] = Rendered(Last, k)
                 /\ TargetPng(Last) \notin DOMAIN fs
                 /\ SameOn(DOMAIN fs0, fs, fs0)

\* C3 witness: a call on a document of several pages, none of whose outputs
\* existed, ended with every page rendered
C3_Witness ==
    /\ CallEnded
    /\ LastUsable
    /\ LastDoc.pages > 1
    /\ TargetPng(Last) \notin DOMAIN fs0
    /\ TargetDir(Last) \notin DOMAIN fs0
    /\ \A k \in 1..LastDoc.pages :
          /\ TargetPage(Last, k) \in DOMAIN fs
          /\ fs[TargetPage(Last, k)] = Rendered(Last, k)

\* C4: for every target PNG of a call: if it existed and overwrite is off,
\* its content after the call is what it was and the call logged a SKIP line
\* naming it; if overwrite is on and its page rendered, its content after
\* the call is the newly rendered page.
C4_SkipOrOverwrite ==
    (CallEnded /\ LastUsable)
    => \A tk \in Targets(Last, LastDoc.pages) :
          LET t == tk[1]
              k == tk[2]
          IN  /\ (t \in DOMAIN fs0 /\ ~overwrite)
                 => /\ t \in DOMAIN fs /\ fs[t] = fs0[t]
                    /\ Line("SKIP", "exists", t, k) \in Range(CallLog)
              /\ (overwrite /\ pc # "raised" /\ ~RenderWarned(CallLog, Last, k))
                 => t \in DOMAIN fs /\ fs[t] = Rendered(Last, k)

\* C4 witness: a call with overwrite off found a page's PNG, left it as it
\* was, and saved another page of the same document
C4_Witness ==
    /\ CallEnded
    /\ LastUsable
    /\ ~overwrite
    /\ \E tk \in Targets(Last, LastDoc.pages) :
          /\ tk[1] \in DOMAIN fs0
          /\ fs[tk[1]] = FileEntry(OldData)
          /\ Line("SKIP", "exists", tk[1], tk[2]) \in Range(CallLog)
    /\ wrote # {}

\* C5: no failure while converting a file leaves convert_pdf as an
\* exception, and when the program ends every discovered file has been
\* attempted.
C5_NoFailureAbortsBatch ==
    /\ pc # "raised"
    /\ pc \in {"returned", "raised"} => idx = Len(pdfs) + 1

\* C6: in a document of several pages, a page whose render or save failed
\* is the only one that failure costs: every page whose target was absent
\* (or overwrite is on) and whose own render did not fail is written,
\* whatever happened to the other pages; every page is skipped with a
\* report, warned about, or written.
C6_PageFailureIsLocal ==
    (CallEnded /\ pc # "raised" /\ LastUsable /\ LastDoc.pages > 1)
    => \A k \in 1..LastDoc.pages :
          LET t == TargetPage(Last, k)
              eligible == ~(t \in DOMAIN fs0 /\ ~overwrite)
              failed == RenderWarned(CallLog, Last, k)
          IN  /\ (eligible /\ ~failed)
                 => t \in DOMAIN fs /\ fs[t] = Rendered(Last, k)
              /\ failed => eligible
              /\ ~eligible => Line("SKIP", "exists", t, k) \in Range(CallLog)

\* C6 witness: an earlier page failed and a later page of the same document
\* was written
C6_Witness ==
    /\ CallEnded
    /\ LastUsable
    /\ \E j, k \in 1..LastDoc.pages :
          /\ j < k
          /\ RenderWarned(CallLog, Last, j)
          /\ TargetPage(Last, k) \in wrote
          /\ fs[TargetPage(Last, k)] = Rendered(Last, k)

\* C7: a call on an encrypted document with no password, an empty password
\* or a password that does not authenticate logs one ERROR line about the
\* password and returns with the filesystem as it was.
C7_AuthFailureWritesNothing ==
    (/\ CallEnded
     /\ CanOpen(fs0, Last)
     /\ LastDoc.needs_pass
     /\ ~password.given \/ password.text = "" \/ password.text # DocPassword)
    => /\ fs = fs0
       /\ CallLog = <<Line("ERROR", "password", Last, 0)>>
       /\ pc # "raised"

\* C7 witness: a call on an encrypted document with a wrong password ended
C7_Witness ==
    /\ CallEnded
    /\ CanOpen(fs0, Last)
    /\ LastDoc.needs_pass
    /\ password = Password("bad")
    /\ Len(CallLog) = 1

\* C8: a call whose document cannot be opened logs one ERROR line, raises
\* nothing and leaves the filesystem as it was; it never ends the batch, and
\* a batch that ran to its end has, for every openable unencrypted document,
\* each page's PNG in place or a warning about it, wherever the unopenable
\* file stood in the list.
C8_OpenFailureContained ==
    /\ (CallEnded /\ ~CanOpen(fs0, Last))
       => /\ fs = fs0
          /\ CallLog = <<Line("ERROR", "open", Last, 0)>>
          /\ pc # "raised"
    /\ pc = "raised" => CanOpen(fs0, pdfs[idx])
    /\ pc = "returned"
       => \A n \in DOMAIN pdfs :
             (CanOpen(fs, pdfs[n]) /\ ~fs[pdfs[n]].data.needs_pass)
             => \A tk \in Targets(pdfs[n], fs[pdfs[n]].data.pages) :
                   \/ /\ tk[1] \in DOMAIN fs
                      /\ fs[tk[1]] \in {Rendered(pdfs[n], tk[2]), FileEntry(OldData)}
                   \/ RenderWarned(log, pdfs[n], tk[2])

\* C8 witness: a finished batch whose first file could not be opened and
\* whose second file was converted
C8_Witness ==
    /\ pc = "returned"
    /\ Len(pdfs) = 2
    /\ ~CanOpen(fs, pdfs[1])
    /\ Line("ERROR", "open", pdfs[1], 0) \in Range(log)
    /\ TargetPng(pdfs[2]) \in DOMAIN fs
    /\ fs[TargetPng(pdfs[2])] = Rendered(pdfs[2], 1)

InConvert == pc \in {"body", "pages", "finally"}

\* C9: once convert_pdf has opened a document, doc.close() is called exactly
\* once before control leaves convert_pdf, on every path out (a return or an
\* exception of the body), never earlier; an error of close is suppressed
\* (only an exception of the body leaves the call); no handle is left open.
C9_CloseExactlyOnce ==
    /\ InConvert => handle = "open" /\ closeCalls = 0
    /\ (CallEnded /\ CanOpen(fs0, Last))
       => closeCalls = 1 /\ handle \in {"closed", "close_failed"}
    /\ (CallEnded /\ ~CanOpen(fs0, Last)) => closeCalls = 0 /\ handle = "none"
    /\ pc = "raised" => exc
    /\ ~InConvert => handle # "open"

\* C9 witness: an exception left convert_pdf after one call of close, which
\* itself raised
C9_Witness ==
    /\ pc = "raised"
    /\ closeCalls = 1
    /\ closeRaised

\* C10: the program ends with exit code 1 exactly when discovery found no
\* PDF (then it printed the [INFO] line and attempted no conversion), and
\* with exit code 0 whenever at least one PDF was discovered.
C10_ExitCode ==
    pc \in {"returned", "raised"}
    => /\ exitCode = 1 <=> pdfs = <<>>
       /\ pdfs # <<>> => exitCode = 0
       /\ pdfs = <<>> => log = <<Line("INFO", "none", <<>>, 0)>>

\* the source of the call that is running or has just ended
ActiveSrc == IF InConvert THEN Cur ELSE Last

\* C11: what a call of convert_pdf creates or changes lies beside its
\* source: only <parent>/<stem>.png, the directory <parent>/<stem> and
\* "<stem> - Pg k.png" files in that directory; nothing is removed, and the
\* source and every other discovered file stay as they were.
C11_WritesOnlyBesideSource ==
    IF InConvert \/ CallEnded
    THEN /\ DOMAIN fs0 \subseteq DOMAIN fs
         /\ \A q \in DOMAIN fs :
               (q \notin DOMAIN fs0 \/ fs[q] # fs0[q])
               => /\ \/ q = TargetPng(ActiveSrc)
                     \/ q = TargetDir(ActiveSrc)
                     \/ \E k \in 1..MaxPages + 1 : q = TargetPage(ActiveSrc, k)
                  /\ SubSeq(q, 1, Len(ActiveSrc) - 1)
                        = SubSeq(ActiveSrc, 1, Len(ActiveSrc) - 1)
         /\ \A n \in DOMAIN pdfs :
               pdfs[n] \in DOMAIN fs0 => fs[pdfs[n]] = fs0[pdfs[n]]
    ELSE fs = fs0

\* C11 witness: a call on one of two discovered files ended having created
\* its directory and saved a page in it
C11_Witness ==
    /\ CallEnded
    /\ Len(pdfs) = 2
    /\ TargetDir(Last) \notin DOMAIN fs0
    /\ TargetDir(Last) \in DOMAIN fs
    /\ \E k \in 1..MaxPages : TargetPage(Last, k) \in wrote

-----------------------------------------------------------------------------
(* The command-line program on sources whose outputs share names *)

A_UPPER == Name("a", <<>>, "PDF")
A_PG1 == Name("a", <<1>>, "pdf")
SU == <<D, A_UPPER>>
SN == <<D, Name("a", <<>>, ""), A_PG1>>

\* as Leftovers, or a directory a that holds the one-page "a - Pg 1.pdf"
CollideLeftovers ==
    Leftovers
    \cup { (OutDir(SA) :> DirEntry) @@ (SN :> FileEntry(PdfData(TRUE, FALSE, 1))) }

CollideInputs ==
    { <<RawPath("rel", <<A_PDF>>), RawPath("rel", <<A_UPPER>>)>>,
      <<RawPath("rel", <<A_UPPER>>), RawPath("rel", <<A_PDF>>)>>,
      <<RawPath("rel", <<A_PDF>>), RawPath("rel", <<Name("a", <<>>, ""), A_PG1>>)>>,
      <<RawPath("abs", <<D>>)>>,
      <<RawPath("rel", <<Z_PDF>>)>> }

\* a.pdf and a.PDF side by side (a case-sensitive filesystem)
InitCollide ==
    /\ \E da \in DocsA, db \in DocsB, left \in CollideLeftovers :
          fs = (<<>> :> DirEntry) @@ (<<D>> :> DirEntry)
               @@ (SA :> FileEntry(da)) @@ (SU :> FileEntry(db)) @@ left
    /\ inputs \in CollideInputs
    /\ overwrite \in BOOLEAN
    /\ password \in Passwords
    /\ InitProgram
    /\ InitCli

SpecCollide == InitCollide /\ [][Next]_vars

\* C12: in one batch no conversion saves over a PNG that the conversion of
\* another source saved, and none skips a target because of such a PNG: each
\* output path belongs to one discovered source.
C12_OneWriterPerTarget ==
    (InConvert \/ CallEnded)
    => /\ \A t \in wrote :
             (t \in DOMAIN fs0 /\ fs0[t].data.t = "png")
             => fs0[t].data.src = ActiveSrc
       /\ \A n \in DOMAIN CallLog :
             (CallLog[n].level = "SKIP" /\ CallLog[n].path \in DOMAIN fs0)
             => ~(/\ fs0[CallLog[n].path].data.t = "png"
                  /\ fs0[CallLog[n].path].data.src # ActiveSrc)

-----------------------------------------------------------------------------
(* The [OK] line *)

\* C15: a call logs an [OK] line only if it saved at least one PNG.
C15_OkOnlyIfWrote ==
    (InConvert \/ CallEnded)
    => ((\E n \in DOMAIN CallLog : CallLog[n].level = "OK") => wrote # {})


-----------------------------------------------------------------------------
(* gui.py: the target list *)

\* str(p) of a resolved path
Str(p) == RawPath("abs", p)

\* the empty string a cancelled dialog returns
EmptyText == RawPath("", <<>>)

AddTarget_NoMembershipTest(t, p, ok) == IF p \in ok THEN Append(t, p) ELSE t

\* "if <test on p> and p not in self.targets: self.targets.append(p)"; ok is
\* the set of paths that pass the handler's test
AddTarget(t, p, ok) == IF p \in ok /\ p \notin Range(t) THEN Append(t, p) ELSE t

\* the handler's for loop over the paths ps
RECURSIVE AddTargets(_, _, _)
AddTargets(t, ps, ok) ==
    IF ps = <<>> THEN t
    ELSE AddTargets(AddTarget(t, Head(ps), ok), Tail(ps), ok)

\* [Path(s).expanduser().resolve() for s in ...]
ResolveAll(raws) == [k \in DOMAIN raws |-> ResolveInput(raws[k])]

\* a drop payload is a sequence of characters: "{", "}", " ", or a run of
\* other characters, which here is always one of the path texts
Sym(c) == [c |-> c, raw |-> EmptyText]
Txt(raw) == [c |-> "t", raw |-> raw]

\* the loop of _split_dnd_paths: braces are counted and dropped, a space
\* outside braces ends the token, anything else joins the token
RECURSIVE Tokens(_, _, _, _)
Tokens(data, token, brace, items) ==
    IF data = <<>>
    THEN IF token # <<>> THEN Append(items, token) ELSE items
    ELSE LET ch == Head(data)
         IN  IF ch.c = "{" THEN Tokens(Tail(data), token, brace + 1, items)
             ELSE IF ch.c = "}"
             THEN Tokens(Tail(data), token, IF brace > 0 THEN brace - 1 ELSE 0, items)
             ELSE IF ch.c = " " /\ brace = 0
             THEN Tokens(Tail(data), <<>>, brace,
                         IF token # <<>> THEN Append(items, token) ELSE items)
             ELSE Tokens(Tail(data), Append(token, ch), brace, items)

\* str.strip() on a token: the spaces at both ends go
RECURSIVE StripToken(_)
StripToken(s) ==
    IF s = <<>> THEN s
    ELSE IF Head(s).c = " " THEN StripToken(Tail(s))
    ELSE IF s[Len(s)].c = " " THEN StripToken(SubSeq(s, 1, Len(s) - 1))
    ELSE s

\* a name no tree holds
JOINED == Name("joined", <<>>, "")

\* Path(s) of a stripped token: one path text is that path; several texts
\* run together or joined by spaces name nothing that exists in GuiTree
TokenRaw(s) == IF Len(s) = 1 THEN s[1].raw ELSE RawPath("rel", <<JOINED>>)

\* "[Path(s.strip()).expanduser().resolve() for s in items if s.strip()]"
_split_dnd_paths(data) ==
    LET items == Tokens(data, <<>>, 0, <<>>)
        kept  == SelectSeq(items, LAMBDA s : StripToken(s) # <<>>)
    IN  [k \in DOMAIN kept |-> ResolveInput(TokenRaw(StripToken(kept[k])))]

\* _refresh_targets: the listbox is emptied and refilled with str(p)
_refresh_targets(t) == [k \in DOMAIN t |-> Str(t[k])]

\* "del self.targets[idx]" (indices from 1 here)
DelAt(t, k) == SubSeq(t, 1, k - 1) \o SubSeq(t, k + 1, Len(t))

MaxOf(S) == CHOOSE k \in S : \A j \in S : j <= k

\* "for idx in reversed(self.listbox.curselection()): del self.targets[idx]"
RECURSIVE DeleteSelected(_, _)
DeleteSelected(t, sel) ==
    IF sel = {} THEN t
    ELSE DeleteSelected(DelAt(t, MaxOf(sel)), sel \ {MaxOf(sel)})

\* gui.main: the targets given on the command line
GuiMainInitial(argv) == AddTargets(<<>>, ResolveAll(argv), DOMAIN fs)

\* what a list handler leaves alone
listFrame == <<fs, inputs, overwrite, password, pc, findVars, pdfs, idx,
               convVars, log, exitCode, dpi, alpha, calls, frontend, dpi_var,
               alpha_var, overwrite_var, password_var, dialog>>

Idle == frontend = "gui" /\ pc = "idle"

Did(op, sel) == lastOp' = [op |-> op, sel |-> sel, before |-> targets]

DEFAULT_DPI == "600"

\* the tree the window works on: /d (working and home directory) with a.pdf,
\* b.PDF and c.txt
GuiTree ==
    (<<>> :> DirEntry) @@ (<<D>> :> DirEntry)
    @@ (<<D, A_PDF>> :> PlainPdf) @@ (<<D, B_PDF>> :> PlainPdf)
    @@ (<<D, C_TXT>> :> FileEntry(OldData))

\* path texts a user can give: a.pdf under two spellings, the folder, b.PDF,
\* c.txt, and z.pdf, which does not exist
GuiRaws ==
    { RawPath("rel", <<A_PDF>>), RawPath("home", <<A_PDF>>),
      RawPath("abs", <<D>>), RawPath("rel", <<B_PDF>>),
      RawPath("rel", <<Dot, C_TXT>>), RawPath("rel", <<Z_PDF>>) }

\* the drop payloads: each path text alone; two and three paths; a path in
\* braces; spaces inside braces; only white space; a missing path; two texts
\* in one pair of braces; a path twice
DropPayloads ==
    LET a == Txt(RawPath("rel", <<A_PDF>>))
        h == Txt(RawPath("home", <<A_PDF>>))
        d == Txt(RawPath("abs", <<D>>))
        b == Txt(RawPath("rel", <<B_PDF>>))
        c == Txt(RawPath("rel", <<Dot, C_TXT>>))
        z == Txt(RawPath("rel", <<Z_PDF>>))
        sp == Sym(" ")
        lb == Sym("{")
        rb == Sym("}")
    IN  { <<a>>, <<d>>, <<b>>, <<c>>,
          <<a, sp, d>>,
          <<lb, h, rb, sp, b, sp, c>>,
          <<lb, sp, b, sp, rb>>,
          <<lb, sp, rb>>,
          <<z, sp, d>>,
          <<lb, a, sp, b, rb>>,
          <<c, sp, a, sp, sp, a>> }


\* a drop on the window or the list: existing paths not yet listed are
\* appended; the listbox is refilled only when something was added
_on_drop_files ==
    /\ Idle
    /\ \E data \in DropPayloads :
          LET t == AddTargets(targets, _split_dnd_paths(data), DOMAIN fs)
          IN  /\ targets' = t
              /\ listbox' = IF t # targets THEN _refresh_targets(t) ELSE listbox
    /\ Did("drop", {})
    /\ UNCHANGED listFrame

\* the file dialog: nothing chosen returns at once, else regular files with
\* the suffix .pdf (any case) not yet listed are appended
_add_pdfs ==
    /\ Idle
    /\ \E paths \in {<<>>} \cup SeqsUpTo(GuiRaws, MaxInputs) :
          IF paths = <<>>
          THEN UNCHANGED <<targets, listbox>>
          ELSE LET ok == {q \in DOMAIN fs : IsFile(fs, q) /\ Lower(Suffix(q)) = "pdf"}
                   t  == AddTargets(targets, ResolveAll(paths), ok)
               IN  /\ targets' = t
                   /\ listbox' = _refresh_targets(t)
    /\ Did("add_pdfs", {})
    /\ UNCHANGED listFrame

\* the folder dialog: nothing chosen returns at once, else a directory not
\* yet listed is appended
_add_folder ==
    /\ Idle
    /\ \E folder \in {EmptyText} \cup GuiRaws :
          IF folder = EmptyText
          THEN UNCHANGED <<targets, listbox>>
          ELSE LET ok == {q \in DOMAIN fs : IsDir(fs, q)}
                   t  == AddTarget(targets, ResolveInput(folder), ok)
               IN  /\ targets' = t
                   /\ listbox' = _refresh_targets(t)
    /\ Did("add_folder", {})
    /\ UNCHANGED listFrame

\* the selected lines are deleted from the targets, last index first
_remove_selected ==
    /\ Idle
    /\ \E sel \in SUBSET DOMAIN listbox :
          /\ targets' = DeleteSelected(targets, sel)
          /\ listbox' = _refresh_targets(targets')
          /\ Did("remove", sel)
    /\ UNCHANGED listFrame

_clear_all ==
    /\ Idle
    /\ targets' = <<>>
    /\ listbox' = _refresh_targets(targets')
    /\ Did("clear", {})
    /\ UNCHANGED listFrame

\* the option widgets as App.__init__ sets them
InitWidgets ==
    /\ dpi_var = DEFAULT_DPI
    /\ alpha_var = TRUE
    /\ overwrite_var = FALSE
    /\ password_var = ""

\* the state gui.main and App.__init__ leave: the targets of the command
\* line, the widgets at their defaults, the event loop waiting
InitApp(argv) ==
    /\ frontend = "gui"
    /\ pc = "idle"
    /\ targets = GuiMainInitial(argv)
    /\ listbox = _refresh_targets(targets)
    /\ InitWidgets
    /\ dialog = ""
    /\ lastOp = NoOp
    /\ inputs = <<>>
    /\ overwrite = FALSE
    /\ password = NoPassword
    /\ dpi = 0
    /\ alpha = FALSE
    /\ fi = 1
    /\ seen = {}
    /\ out = <<>>
    /\ encountered = <<>>
    /\ pdfs = <<>>
    /\ idx = 1
    /\ handle = "none"
    /\ page_count = 0
    /\ i = 0
    /\ exc = FALSE
    /\ closeCalls = 0
    /\ closeRaised = FALSE
    /\ wrote = {}
    /\ fs0 = fs
    /\ log0 = 0
    /\ log = <<>>
    /\ exitCode = -1
    /\ calls = <<>>

InitGuiList ==
    /\ fs = GuiTree
    /\ \E argv \in {<<>>} \cup SeqsUpTo(GuiRaws, MaxInputs) : InitApp(argv)

NextGuiList ==
    _on_drop_files \/ _add_pdfs \/ _add_folder \/ _remove_selected \/ _clear_all

SpecGuiList == InitGuiList /\ [][NextGuiList]_vars

\* the entries of t whose index is not in sel, from index k on, in order
RECURSIVE KeepUnselected(_, _, _)
KeepUnselected(t, sel, k) ==
    IF k > Len(t) THEN <<>>
    ELSE (IF k \in sel THEN <<>> ELSE <<t[k]>>) \o KeepUnselected(t, sel, k + 1)

\* C14: starting from the list gui.main builds, after any sequence of
\* drop-files, add-PDFs, add-folder, remove-selected and clear-all the targets
\* never hold a path twice; and remove-selected deletes exactly the entries
\* at the selected indices and keeps the others in their order.
C14_TargetsNoDuplicates ==
    /\ NoDuplicates(targets)
    /\ lastOp.op = "remove" =>
          targets = KeepUnselected(lastOp.before, lastOp.sel, 1)

\* a removal of two selected lines, not adjacent, that leaves entries on
\* both sides of a removed one
C14_Witness ==
    /\ lastOp.op = "remove"
    /\ Len(lastOp.before) >= 4
    /\ lastOp.sel = {2, 4}
    /\ Len(targets) = Len(lastOp.before) - 2


-----------------------------------------------------------------------------
(* gui.py: the Start button *)

MaxStarts == 1

DPI_CHOICES == {"72", "96", "144", "300", "600", "1200", "2400", "3600", "4800"}

\* int(text) on the texts the DPI box can hold
ParseInt(text) ==
    CASE text = "72" -> 72     [] text = "96" -> 96     [] text = "144" -> 144
      [] text = "300" -> 300   [] text = "600" -> 600   [] text = "1200" -> 1200
      [] text = "2400" -> 2400 [] text = "3600" -> 3600 [] text = "4800" -> 4800

\* str.strip() on the texts the password field is given
Strip(text) ==
    CASE text \in {" pw ", " pw", "pw "} -> "pw"
      [] text = " " -> ""
      [] OTHER -> text

PasswordTexts == {"", " ", "pw", " pw ", "bad"}

\* "self.password_var.get().strip() or None"
StartPassword(text) ==
    IF Strip(text) = "" THEN NoPassword ELSE Password(Strip(text))

\* the option settings a user makes: the defaults with each password text,
\* and the other DPI, alpha and overwrite values
OptionPicks ==
    { [dpi |-> DEFAULT_DPI, alpha |-> TRUE, overwrite |-> FALSE, password |-> t] :
        t \in PasswordTexts }
    \cup { [dpi |-> "72", alpha |-> FALSE, overwrite |-> TRUE, password |-> t] :
        t \in {"", "pw"} }

\* the user sets the widgets bound to dpi_var, alpha_var, overwrite_var and
\* password_var
EditOptions ==
    /\ Idle
    /\ \E o \in OptionPicks :
          /\ dpi_var' = o.dpi
          /\ alpha_var' = o.alpha
          /\ overwrite_var' = o.overwrite
          /\ password_var' = o.password
    /\ UNCHANGED <<fs, inputs, overwrite, password, pc, findVars, pdfs, idx,
                   convVars, log, exitCode, dpi, alpha, calls, frontend,
                   targets, listbox, dialog, lastOp>>

\* the batches this window has run
Starts == Cardinality({k \in DOMAIN log : log[k].what = "found"})

\* App._start up to the call of find_pdfs: a warning without targets, an
\* error box when the DPI text is no integer, else the arguments are read
\* from the widgets and find_pdfs is given str(p) of every target
_start ==
    /\ Idle
    /\ Starts < MaxStarts
    /\ IF targets = <<>>
       THEN /\ dialog' = "No targets"
            /\ UNCHANGED <<inputs, overwrite, password, pc, findVars, pdfs, idx,
                           dpi, alpha, calls>>
       ELSE IF dpi_var \notin DPI_CHOICES
       THEN /\ dialog' = "Invalid DPI"
            /\ UNCHANGED <<inputs, overwrite, password, pc, findVars, pdfs, idx,
                           dpi, alpha, calls>>
       ELSE /\ dpi' = ParseInt(dpi_var)
            /\ alpha' = alpha_var
            /\ overwrite' = overwrite_var
            /\ password' = StartPassword(password_var)
            /\ inputs' = [k \in DOMAIN targets |-> Str(targets[k])]
            /\ fi' = 1
            /\ seen' = {}
            /\ out' = <<>>
            /\ encountered' = <<>>
            /\ pdfs' = <<>>
            /\ idx' = 1
            /\ calls' = <<>>
            /\ pc' = "find"
            /\ dialog' = dialog
    /\ UNCHANGED <<fs, convVars, log, exitCode, frontend, targets, listbox,
                   dpi_var, alpha_var, overwrite_var, password_var, lastOp>>

\* "if not all_pdfs": an info box and return
_start_NoPdfs ==
    /\ frontend = "gui"
    /\ pc = "main"
    /\ pdfs = <<>>
    /\ dialog' = "No PDFs found"
    /\ pc' = "idle"
    /\ UNCHANGED <<fs, inputs, overwrite, password, findVars, pdfs, idx,
                   convVars, log, exitCode, dpi, alpha, calls, frontend,
                   targets, listbox, dpi_var, alpha_var, overwrite_var,
                   password_var, lastOp>>

\* the loop is over: "Done" is logged and the handler returns
_start_Done ==
    /\ frontend = "gui"
    /\ pc = "main"
    /\ pdfs # <<>>
    /\ idx > Len(pdfs)
    /\ log' = Append(log, Line("GUI", "done", Root, 0))
    /\ pc' = "idle"
    /\ UNCHANGED <<fs, inputs, overwrite, password, findVars, pdfs, idx,
                   convVars, exitCode, dpi, alpha, calls, frontend, targets,
                   listbox, dpi_var, alpha_var, overwrite_var, password_var,
                   dialog, lastOp>>


\* an exception out of convert_pdf ends the click handler; Tk reports it and
\* the event loop goes on
_start_Raised ==
    /\ frontend = "gui"
    /\ pc = "raised"
    /\ pc' = "idle"
    /\ UNCHANGED <<fs, inputs, overwrite, password, findVars, pdfs, idx,
                   convVars, log, exitCode, dpi, alpha, calls, frontend,
                   targets, listbox, dpi_var, alpha_var, overwrite_var,
                   password_var, dialog, lastOp>>

\* what a.pdf holds under the window: nothing readable, or a document of 0,
\* 1 or MaxPages pages, or an encrypted page
GuiDocsA ==
    {OldData, PdfData(TRUE, TRUE, 1)} \cup {PdfData(TRUE, FALSE, n) : n \in {0, 1, MaxPages}}

\* what lies where a.pdf's outputs go: nothing, a.png, a file named a, or
\* the directory a with the first page PNG
GuiLeftovers ==
    { <<>>, (OutPng(SA) :> FileEntry(OldData)), (OutDir(SA) :> FileEntry(OldData)),
      (OutDir(SA) :> DirEntry) @@ (PagePng(SA, 1) :> FileEntry(OldData)) }

\* the command lines of the window: none, a.pdf, the folder, c.txt alone,
\* c.txt and a.pdf
GuiArgvs ==
    { <<>>, <<RawPath("rel", <<A_PDF>>)>>, <<RawPath("abs", <<D>>)>>,
      <<RawPath("rel", <<Dot, C_TXT>>)>>,
      <<RawPath("rel", <<Dot, C_TXT>>), RawPath("home", <<A_PDF>>)>> }

InitGui ==
    /\ \E da \in GuiDocsA, left \in GuiLeftovers :
          fs = (<<>> :> DirEntry) @@ (<<D>> :> DirEntry)
               @@ (SA :> FileEntry(da)) @@ (SB :> PlainPdf)
               @@ (<<D, C_TXT>> :> FileEntry(OldData)) @@ left
    /\ \E argv \in GuiArgvs : InitApp(argv)

NextGui ==
    \/ EditOptions \/ _start \/ _start_NoPdfs \/ _start_Done \/ _start_Raised
    \/ FindFile \/ FindDir \/ FindIgnore \/ FindReturn
    \/ OpenFail \/ OpenOk
    \/ AuthSkip \/ ZeroPages
    \/ SingleSkip \/ SingleFail \/ SingleOk
    \/ MkdirRaise \/ MkdirOk
    \/ PageSkip \/ PageFail \/ PageOk \/ PagesDone
    \/ Finally

SpecGui == InitGui /\ [][NextGui]_vars

\* the arguments cli._main gives convert_pdf for --dpi, --alpha, --overwrite
\* and --password with these values: argparse turns the DPI text into an int
\* and hands the password text on as it is
CliArgs(dpiText, alphaOn, overwriteOn, passwordText) ==
    [dpi |-> ParseInt(dpiText), alpha |-> alphaOn, overwrite |-> overwriteOn,
     password |-> Password(passwordText)]

\* two password arguments convert_pdf cannot tell apart: equal, or both
\* None or empty
SamePassword(p, q) == p = q \/ (PasswordMissing(p) /\ PasswordMissing(q))

\* C13: with the same targets and the same option values, Start issues the
\* convert_pdf calls the command line issues: find_pdfs is given the texts of
\* the targets, every discovered file is converted in order, and dpi,
\* overwrite, alpha and password are those the command line passes for the
\* same values, passwords with white space at either end included.
C13_StartCallsAsCli ==
    (frontend = "gui" /\ pc # "idle") =>
        LET cli == CliArgs(dpi_var, alpha_var, overwrite_var, password_var)
        IN  /\ inputs = [k \in DOMAIN targets |-> Str(targets[k])]
            /\ \A n \in DOMAIN calls :
                  /\ calls[n].pdf = pdfs[n]
                  /\ calls[n].dpi = cli.dpi
                  /\ calls[n].alpha = cli.alpha
                  /\ calls[n].overwrite = cli.overwrite
                  /\ SamePassword(calls[n].password, cli.password)

====
